---- MODULE Spec2Model ----
(***************************************************************************)
(* Model of dodge-game-rs (src/src/main.rs): the Game state (player,       *)
(* falling blocks, score, board size), its update() and check_collision(), *)
(* and the driver main(): terminal set-up, the 'game_loop (draw, input     *)
(* poll, tick) and the terminal clean-up.  Every `?` of main is a call     *)
(* that may fail and return the error out of main at once.                 *)
(***************************************************************************)
EXTENDS Integers, Sequences, FiniteSets

(* ------------------------------ bounds --------------------------------- *)
\* Largest terminal width / height that terminal.size() reports in the model.
MaxOuterWidth == 4
MaxOuterHeight == 5
\* update() is not run once the score has reached this value.
MaxScore == 4
\* Largest board of the scenario that places one obstacle by hand.
ScenarioMaxWidth == 2
ScenarioMaxHeight == 4
\* The u16 edge cases: boards up to this width run update(), at most
\* ArithMaxUpdates times, and the initial collection holds at most
\* ArithMaxBlocks blocks.
ArithSpawnWidth == 2
ArithMaxBlocks == 2
ArithMaxUpdates == 2

(* ------------------------- program constants --------------------------- *)
\* TICK_RATE, in milliseconds.
TICK_RATE == 200
\* The largest u16 (FallingBlock.x/y, player_x/y, width, height are u16).
U16_MAX == 65535
\* Time is observed in steps of half a tick interval.
Quantum == TICK_RATE \div 2

\* The key codes main distinguishes, one other key, and one non-key event.
KeyEvents == {"Left", "Right", "q", "Esc", "OtherKey"}
Events == KeyEvents \cup {"Resize"}

VARIABLES
    pc,          \* the statement of main that runs next
    raw_mode,    \* the terminal is in raw mode
    alt_screen,  \* the terminal shows the alternate screen
    disable_attempted, \* disable_raw_mode() has been called
    leave_attempted,   \* LeaveAlternateScreen has been executed (or tried)
    constructed, \* `game` exists (Game::new has run)
    game,        \* the Game struct
    elapsed,     \* last_tick.elapsed(), saturated at TICK_RATE
    hit,         \* what the last check_collision() call returned
    loop_exit,   \* how 'game_loop was left: "none", "quit", "collision"
    io_failed,   \* a `?` returned an error out of main
    exit_code,   \* the process's exit code, -1 while it runs
    printed,     \* the scores printed by println!, in order
    last_op,     \* the statement of main that ran last (and its outcome)
    updates,     \* history: the number of update() calls so far
    culled,      \* history: how many blocks the last update() removed
    checks,      \* history: the number of check_collision() calls so far
    frame,       \* the frame that terminal.draw rendered last
    forced       \* history: the obstacle a scenario placed by hand

vars == <<pc, raw_mode, alt_screen, disable_attempted, leave_attempted,
          constructed, game, elapsed, hit, loop_exit, io_failed, exit_code,
          printed, last_op, updates, culled, checks, frame, forced>>

term_vars == <<raw_mode, alt_screen, disable_attempted, leave_attempted>>
game_vars == <<constructed, game, hit, updates, culled>>
exit_vars == <<loop_exit, io_failed, exit_code, printed>>
hist_vars == <<checks, frame, forced>>

(* ------------------------------- Game ---------------------------------- *)
\* u16::saturating_sub
saturating_sub(a, b) == IF a >= b THEN a - b ELSE 0

\* u16 addition and subtraction as a release build computes them.
wrapping_add(a, b) == (a + b) % (U16_MAX + 1)
wrapping_sub(a, b) == (a - b) % (U16_MAX + 1)

\* Mutant of new: the player starts in the last row, not the one above it.
new_last_row(width, height) ==
    [ player_x |-> width \div 2,
      player_y |-> saturating_sub(height, 1),
      blocks   |-> << >>,
      score    |-> 0,
      width    |-> width,
      height   |-> height ]

\* Mutant of new: height - 2 is computed with a wrapping subtraction.
new_wrapping_sub(width, height) ==
    [ player_x |-> width \div 2,
      player_y |-> wrapping_sub(height, 2),
      blocks   |-> << >>,
      score    |-> 0,
      width    |-> width,
      height   |-> height ]

\* Game::new
new(width, height) ==
    [ player_x |-> width \div 2,
      player_y |-> saturating_sub(height, 2),
      blocks   |-> << >>,
      score    |-> 0,
      width    |-> width,
      height   |-> height ]

\* The value of `game` before Game::new has run (never read by the program).
NoGame == new(0, 0)

\* Mutant of spawn_loop: the block of column x is pushed at column x + 1.
RECURSIVE spawn_loop_next_column(_, _, _, _)
spawn_loop_next_column(blocks, x, width, S) ==
    IF x >= width THEN blocks
    ELSE spawn_loop_next_column(
             IF x \in S THEN Append(blocks, [x |-> x + 1, y |-> 0])
                        ELSE blocks,
             x + 1, width, S)

\* The spawn loop `for x in 0..self.width`: column x gets a block when
\* gen_bool succeeded for it, i.e. when x is in S; pushes are in order of x.
RECURSIVE spawn_loop(_, _, _, _)
spawn_loop(blocks, x, width, S) ==
    IF x >= width THEN blocks
    ELSE spawn_loop(IF x \in S THEN Append(blocks, [x |-> x, y |-> 0])
                               ELSE blocks,
                    x + 1, width, S)

spawn(g, S) == [g EXCEPT !.blocks = spawn_loop(g.blocks, 0, g.width, S)]

\* Mutant of advance: the blocks are not moved.
advance_none(g) == g

\* Mutant of advance: the loop skips the first block.
advance_skip_first(g) ==
    [g EXCEPT !.blocks =
        [i \in 1..Len(g.blocks) |->
            [x |-> g.blocks[i].x,
             y |-> IF i = 1 THEN g.blocks[i].y
                   ELSE wrapping_add(g.blocks[i].y, 1)]]]

\* for block in &mut self.blocks { block.y += 1; }
advance(g) ==
    [g EXCEPT !.blocks =
        [i \in 1..Len(g.blocks) |->
            [x |-> g.blocks[i].x, y |-> wrapping_add(g.blocks[i].y, 1)]]]

\* Mutant of retain_on_screen: a block at y = height is kept.
retain_on_screen_inclusive(b, height) == b.y <= height

\* self.blocks.retain(|block| block.y < self.height)
retain_on_screen(b, height) == b.y < height

cull(g) ==
    [g EXCEPT !.blocks =
        SelectSeq(g.blocks, LAMBDA b : retain_on_screen(b, g.height))]

\* Mutant of add_score: the score is left as it is.
add_score_none(g) == g

\* self.score += 1
add_score(g) == [g EXCEPT !.score = g.score + 1]

\* Mutant of update: the blocks advance before the new ones are spawned.
update_advance_first(g, S) == add_score(cull(spawn(advance(g), S)))

\* Game::update, with S the columns whose gen_bool trial succeeded.
update(g, S) == add_score(cull(advance(spawn(g, S))))

\* Mutant of same_cell: only the column is compared.
same_cell_column_only(b, g) == b.x = g.player_x

\* The closure of check_collision.
same_cell(b, g) == b.x = g.player_x /\ b.y = g.player_y

\* Iterator::any over self.blocks, from index i on, stopping at the first hit.
RECURSIVE any_from(_, _)
any_from(g, i) ==
    IF i > Len(g.blocks) THEN FALSE
    ELSE IF same_cell(g.blocks[i], g) THEN TRUE
    ELSE any_from(g, i + 1)

\* Mutant of check_collision: only the first block is compared.
check_collision_first_only(g) ==
    Len(g.blocks) >= 1 /\ same_cell(g.blocks[1], g)

\* Game::check_collision
check_collision(g) == any_from(g, 1)

\* Mutant of move_left: the decrement is not guarded by player_x > 0.
move_left_unguarded(g) ==
    [g EXCEPT !.player_x = wrapping_sub(g.player_x, 1)]

\* KeyCode::Left
move_left(g) ==
    IF g.player_x > 0
    THEN [g EXCEPT !.player_x = wrapping_sub(g.player_x, 1)]
    ELSE g

\* Mutant of move_right: the guard compares with width, not width - 1.
move_right_to_width(g) ==
    IF g.player_x < g.width
    THEN [g EXCEPT !.player_x = wrapping_add(g.player_x, 1)]
    ELSE g

\* KeyCode::Right
move_right(g) ==
    IF g.player_x < saturating_sub(g.width, 1)
    THEN [g EXCEPT !.player_x = wrapping_add(g.player_x, 1)]
    ELSE g

\* The match on key.code, for the events that do not leave the loop.
handle_event(g, ev) ==
    CASE ev = "Left"  -> move_left(g)
      [] ev = "Right" -> move_right(g)
      [] OTHER        -> g

\* Mutant of is_quit: Esc does not leave the loop.
is_quit_only_q(ev) == ev = "q"

\* KeyCode::Char('q') | KeyCode::Esc
is_quit(ev) == ev \in {"q", "Esc"}

\* Mutant of render: the player's cell is drawn like any other cell.
render_without_player(g) ==
    [ title |-> g.score,
      cells |-> [ c \in (0..(g.height - 1)) \X (0..(g.width - 1)) |->
                    IF \E i \in 1..Len(g.blocks) :
                          g.blocks[i].x = c[2] /\ g.blocks[i].y = c[1]
                    THEN "#"
                    ELSE " " ] ]

\* The closure of terminal.draw: the title shows the score, and each cell
\* of the playable area shows "@" for the player, else "#" for a block,
\* else " ".  (The inner area is taken to be the playable area.)
render(g) ==
    [ title |-> g.score,
      cells |-> [ c \in (0..(g.height - 1)) \X (0..(g.width - 1)) |->
                    IF c[1] = g.player_y /\ c[2] = g.player_x THEN "@"
                    ELSE IF \E i \in 1..Len(g.blocks) :
                               g.blocks[i].x = c[2] /\ g.blocks[i].y = c[1]
                         THEN "#"
                         ELSE " " ] ]

\* Before the first terminal.draw nothing has been rendered.
NoFrame == [ title |-> -1, cells |-> [ c \in {} |-> " " ] ]

\* In a run of main no obstacle is placed by hand.
NoForced == [ on |-> FALSE, x |-> 0, y |-> 0, quiet |-> TRUE ]

\* Mutant of tick_due: the tick is taken in every iteration.
tick_due_always(e) == TRUE

\* last_tick.elapsed() >= TICK_RATE
tick_due(e) == e >= TICK_RATE

(* ------------------------------- main ---------------------------------- *)
Init ==
    /\ pc = "enable_raw"
    /\ raw_mode = FALSE
    /\ alt_screen = FALSE
    /\ disable_attempted = FALSE
    /\ leave_attempted = FALSE
    /\ constructed = FALSE
    /\ game = NoGame
    /\ elapsed = 0
    /\ hit = FALSE
    /\ loop_exit = "none"
    /\ io_failed = FALSE
    /\ exit_code = -1
    /\ printed = << >>
    /\ last_op = "start"
    /\ updates = 0
    /\ culled = 0
    /\ checks = 0
    /\ frame = NoFrame
    /\ forced = NoForced

\* `?` on an Err: main returns the error; the runtime exits with code 1.
\* Nothing on the way out touches raw mode or the alternate screen.
Abort(op) ==
    /\ pc' = "done"
    /\ io_failed' = TRUE
    /\ exit_code' = 1
    /\ last_op' = op
    /\ UNCHANGED <<loop_exit, printed>>

\* enable_raw_mode()?
EnableRaw ==
    /\ pc = "enable_raw"
    /\ \/ /\ raw_mode' = TRUE
          /\ pc' = "enter_alt"
          /\ last_op' = "enable_raw"
          /\ UNCHANGED exit_vars
       \/ /\ Abort("enable_raw_failed")
          /\ UNCHANGED raw_mode
    /\ UNCHANGED <<alt_screen, disable_attempted, leave_attempted,
                   game_vars, elapsed>>
    /\ UNCHANGED hist_vars

\* execute!(stdout, EnterAlternateScreen)?
EnterAlt ==
    /\ pc = "enter_alt"
    /\ \/ /\ alt_screen' = TRUE
          /\ pc' = "term_new"
          /\ last_op' = "enter_alt"
          /\ UNCHANGED exit_vars
       \/ /\ Abort("enter_alt_failed")
          /\ UNCHANGED alt_screen
    /\ UNCHANGED <<raw_mode, disable_attempted, leave_attempted,
                   game_vars, elapsed>>
    /\ UNCHANGED hist_vars

\* Terminal::new(backend)?
TerminalNew ==
    /\ pc = "term_new"
    /\ \/ /\ pc' = "size"
          /\ last_op' = "term_new"
          /\ UNCHANGED exit_vars
       \/ Abort("term_new_failed")
    /\ UNCHANGED <<term_vars, game_vars, elapsed>>
    /\ UNCHANGED hist_vars

\* terminal.size()?, the playable area, Game::new and last_tick = now.
NewGame ==
    /\ pc = "size"
    /\ \/ \E ow \in 0..MaxOuterWidth, oh \in 0..MaxOuterHeight :
            /\ game' = new(saturating_sub(ow, 2), saturating_sub(oh, 2))
            /\ constructed' = TRUE
            /\ elapsed' = 0
            /\ pc' = "draw"
            /\ last_op' = "new"
            /\ UNCHANGED <<exit_vars, hit, updates, culled>>
       \/ /\ Abort("size_failed")
          /\ UNCHANGED <<game_vars, elapsed>>
    /\ UNCHANGED term_vars
    /\ UNCHANGED hist_vars

\* terminal.draw(..)?
Draw ==
    /\ pc = "draw"
    /\ \/ /\ frame' = render(game)
          /\ pc' = "poll"
          /\ last_op' = "draw"
          /\ UNCHANGED exit_vars
       \/ /\ Abort("draw_failed")
          /\ UNCHANGED frame
    /\ UNCHANGED <<term_vars, game_vars, elapsed, checks, forced>>

\* event::poll(0)?: no event pending, an event pending, or an error.
Poll ==
    /\ pc = "poll"
    /\ \/ /\ pc' = "time_check"
          /\ last_op' = "poll_none"
          /\ UNCHANGED exit_vars
       \/ /\ pc' = "read"
          /\ last_op' = "poll_some"
          /\ UNCHANGED exit_vars
       \/ Abort("poll_failed")
    /\ UNCHANGED <<term_vars, game_vars, elapsed>>
    /\ UNCHANGED hist_vars

\* Mutant of Read: a quit key is noted, and the loop is left only after
\* the time check of the iteration.
Read_deferred_quit ==
    /\ pc = "read"
    /\ \/ \E ev \in Events :
            /\ last_op' = ev
            /\ pc' = "time_check"
            /\ IF is_quit(ev)
               THEN /\ loop_exit' = "quit"
                    /\ UNCHANGED game
               ELSE /\ game' = handle_event(game, ev)
                    /\ UNCHANGED loop_exit
            /\ UNCHANGED <<io_failed, exit_code, printed>>
       \/ /\ Abort("read_failed")
          /\ UNCHANGED game
    /\ UNCHANGED <<term_vars, constructed, hit, updates, culled, elapsed>>
    /\ UNCHANGED hist_vars

\* event::read()? and the match on the key code.
Read ==
    /\ pc = "read"
    /\ \/ \E ev \in Events :
            /\ last_op' = ev
            /\ IF is_quit(ev)
               THEN /\ pc' = "disable_raw"
                    /\ loop_exit' = "quit"
                    /\ UNCHANGED game
               ELSE /\ pc' = "time_check"
                    /\ game' = handle_event(game, ev)
                    /\ UNCHANGED loop_exit
            /\ UNCHANGED <<io_failed, exit_code, printed>>
       \/ /\ Abort("read_failed")
          /\ UNCHANGED game
    /\ UNCHANGED <<term_vars, constructed, hit, updates, culled, elapsed>>
    /\ UNCHANGED hist_vars

\* if last_tick.elapsed() >= TICK_RATE { update; check_collision; last_tick }
TimeCheck ==
    /\ pc = "time_check"
    /\ IF tick_due(elapsed)
       THEN /\ game.score < MaxScore
            /\ \E S \in SUBSET (0..(game.width - 1)) :
                 /\ game' = update(game, S)
                 /\ culled' = Len(advance(spawn(game, S)).blocks)
                                - Len(game'.blocks)
            /\ updates' = updates + 1
            /\ hit' = check_collision(game')
            /\ checks' = checks + 1
            /\ last_op' = "update"
            /\ IF hit'
               THEN /\ pc' = "disable_raw"
                    /\ loop_exit' = "collision"
                    /\ UNCHANGED elapsed
               ELSE /\ pc' = "draw"
                    /\ elapsed' = 0
                    /\ UNCHANGED loop_exit
       ELSE /\ pc' = "draw"
            /\ last_op' = "no_tick"
            /\ UNCHANGED <<game, hit, updates, culled, checks, elapsed,
                           loop_exit>>
    /\ UNCHANGED <<term_vars, constructed, io_failed, exit_code, printed,
                   frame, forced>>

\* disable_raw_mode()?
DisableRaw ==
    /\ pc = "disable_raw"
    /\ disable_attempted' = TRUE
    /\ \/ /\ raw_mode' = FALSE
          /\ pc' = "leave_alt"
          /\ last_op' = "disable_raw"
          /\ UNCHANGED exit_vars
       \/ /\ Abort("disable_raw_failed")
          /\ UNCHANGED raw_mode
    /\ UNCHANGED <<alt_screen, leave_attempted, game_vars, elapsed>>
    /\ UNCHANGED hist_vars

\* Mutant of LeaveAlt: the clean-up does not leave the alternate screen.
LeaveAlt_skipped ==
    /\ pc = "leave_alt"
    /\ pc' = "show_cursor"
    /\ last_op' = "leave_alt"
    /\ UNCHANGED <<term_vars, game_vars, elapsed, exit_vars>>
    /\ UNCHANGED hist_vars

\* execute!(terminal.backend_mut(), LeaveAlternateScreen)?
LeaveAlt ==
    /\ pc = "leave_alt"
    /\ leave_attempted' = TRUE
    /\ \/ /\ alt_screen' = FALSE
          /\ pc' = "show_cursor"
          /\ last_op' = "leave_alt"
          /\ UNCHANGED exit_vars
       \/ /\ Abort("leave_alt_failed")
          /\ UNCHANGED alt_screen
    /\ UNCHANGED <<raw_mode, disable_attempted, game_vars, elapsed>>
    /\ UNCHANGED hist_vars

\* terminal.show_cursor()?
ShowCursor ==
    /\ pc = "show_cursor"
    /\ \/ /\ pc' = "print"
          /\ last_op' = "show_cursor"
          /\ UNCHANGED exit_vars
       \/ Abort("show_cursor_failed")
    /\ UNCHANGED <<term_vars, game_vars, elapsed>>
    /\ UNCHANGED hist_vars

\* Mutant of PrintScore: main returns Ok(()) without printing the score.
PrintScore_silent ==
    /\ pc = "print"
    /\ exit_code' = 0
    /\ pc' = "done"
    /\ last_op' = "print"
    /\ UNCHANGED <<term_vars, game_vars, elapsed, loop_exit, io_failed,
                   printed, hist_vars>>

\* println!("Game Over! Final Score: {}", game.score); Ok(())
PrintScore ==
    /\ pc = "print"
    /\ printed' = Append(printed, game.score)
    /\ exit_code' = 0
    /\ pc' = "done"
    /\ last_op' = "print"
    /\ UNCHANGED <<term_vars, game_vars, elapsed, loop_exit, io_failed>>
    /\ UNCHANGED hist_vars

\* Time passes while the loop runs (Instant::now() grows).
Elapse ==
    /\ pc \in {"draw", "poll", "read", "time_check"}
    /\ elapsed < TICK_RATE
    /\ elapsed' = IF elapsed + Quantum > TICK_RATE THEN TICK_RATE
                  ELSE elapsed + Quantum
    /\ UNCHANGED <<pc, term_vars, game_vars, exit_vars, last_op>>
    /\ UNCHANGED hist_vars

Next ==
    \/ EnableRaw
    \/ EnterAlt
    \/ TerminalNew
    \/ NewGame
    \/ Draw
    \/ Poll
    \/ Read
    \/ TimeCheck
    \/ DisableRaw
    \/ LeaveAlt
    \/ ShowCursor
    \/ PrintScore
    \/ Elapse

Spec == Init /\ [][Next]_vars

\* main is a single thread that always runs its next statement.
FairSpec == Spec /\ WF_vars(Next)

(* ---------------- the Game alone, with one obstacle placed ------------- *)
\* A fresh Game whose blocks hold one obstacle pushed by hand at (x0, y0),
\* on the board; nothing of main runs.
ScenarioInit ==
    /\ \E w \in 1..ScenarioMaxWidth, h \in 1..ScenarioMaxHeight :
         \E x0 \in 0..(w - 1), y0 \in 0..(h - 1) :
            /\ game = [new(w, h) EXCEPT !.blocks = << [x |-> x0, y |-> y0] >>]
            /\ forced = [on |-> TRUE, x |-> x0, y |-> y0, quiet |-> TRUE]
    /\ pc = "scenario"
    /\ constructed = TRUE
    /\ raw_mode = FALSE
    /\ alt_screen = FALSE
    /\ disable_attempted = FALSE
    /\ leave_attempted = FALSE
    /\ elapsed = 0
    /\ hit = FALSE
    /\ loop_exit = "none"
    /\ io_failed = FALSE
    /\ exit_code = -1
    /\ printed = << >>
    /\ last_op = "new"
    /\ updates = 0
    /\ culled = 0
    /\ checks = 0
    /\ frame = NoFrame

\* The spawn outcomes of the scenario: no column, or one column.
ScenarioSpawns(width) == {{}} \cup { {x} : x \in 0..(width - 1) }

\* game.update() followed by game.check_collision(), with spawn set S.
ScenarioUpdate ==
    /\ pc = "scenario"
    /\ game.score < MaxScore
    /\ \E S \in ScenarioSpawns(game.width) :
         /\ game' = update(game, S)
         /\ culled' = Len(advance(spawn(game, S)).blocks) - Len(game'.blocks)
         /\ forced' = [forced EXCEPT !.quiet = forced.quiet /\ S = {}]
    /\ updates' = updates + 1
    /\ hit' = check_collision(game')
    /\ checks' = checks + 1
    /\ last_op' = "update"
    /\ UNCHANGED <<pc, term_vars, constructed, elapsed, exit_vars, frame>>

\* A Left or Right key applied to the game.
ScenarioMove ==
    /\ pc = "scenario"
    /\ \E ev \in {"Left", "Right"} :
         /\ game' = handle_event(game, ev)
         /\ last_op' = ev
    /\ forced' = [forced EXCEPT !.quiet = FALSE]
    /\ UNCHANGED <<pc, term_vars, constructed, hit, updates, culled, checks,
                   elapsed, exit_vars, frame>>

ScenarioNext ==
    \/ ScenarioUpdate
    \/ ScenarioMove

SpecScenario == ScenarioInit /\ [][ScenarioNext]_vars

(* ------------- the Game alone, at the edges of the u16 range ----------- *)
\* Board sizes at both ends of u16.
EdgeSizes == (0..ArithSpawnWidth) \cup {U16_MAX - 1, U16_MAX}

\* The first two and the last two values of 0..n-1.
EdgeBelow(n) == { v \in {0, 1, n - 2, n - 1} : 0 <= v /\ v < n }

\* The columns the moves keep player_x in, at both ends.
PlayerCols(w) ==
    { v \in {0, 1, w - 2, w - 1} : 0 <= v /\ v <= saturating_sub(w, 1) }

\* Cells <<x, y>> a block can be in after an update(): rows 1..h-1.
EdgeCells(w, h) == { c \in EdgeBelow(w) \X EdgeBelow(h) : c[2] >= 1 }

\* The order update() leaves the blocks in: older (lower) rows first, and
\* within a row by column, as the spawn loop pushed them.
PushedBefore(c, d) == c[2] > d[2] \/ (c[2] = d[2] /\ c[1] < d[1])

RECURSIVE PushOrder(_)
PushOrder(C) ==
    IF C = {} THEN << >>
    ELSE LET c == CHOOSE e \in C : \A d \in C \ {e} : PushedBefore(e, d)
         IN  << [x |-> c[1], y |-> c[2]] >> \o PushOrder(C \ {c})

\* The largest row of a set of cells; as many updates have run at least.
RECURSIVE MaxRow(_)
MaxRow(C) ==
    IF C = {} THEN 0
    ELSE LET c == CHOOSE e \in C : TRUE
             m == MaxRow(C \ {c})
         IN  IF c[2] > m THEN c[2] ELSE m

\* A Game that update() and the moves have brought to the edge of the u16
\* range; `updates` counts the update() calls from this state on.
ArithInit ==
    /\ \E w \in EdgeSizes, h \in EdgeSizes :
         \E px \in PlayerCols(w), C \in SUBSET EdgeCells(w, h) :
            /\ Cardinality(C) <= ArithMaxBlocks
            /\ game = [new(w, h) EXCEPT !.player_x = px,
                                        !.blocks = PushOrder(C),
                                        !.score = MaxRow(C)]
    /\ pc = "arith"
    /\ constructed = TRUE
    /\ raw_mode = FALSE
    /\ alt_screen = FALSE
    /\ disable_attempted = FALSE
    /\ leave_attempted = FALSE
    /\ elapsed = 0
    /\ hit = FALSE
    /\ loop_exit = "none"
    /\ io_failed = FALSE
    /\ exit_code = -1
    /\ printed = << >>
    /\ last_op = "new"
    /\ updates = 0
    /\ culled = 0
    /\ checks = 0
    /\ frame = NoFrame
    /\ forced = NoForced

\* game.update() followed by game.check_collision(), with spawn set S.
ArithUpdate ==
    /\ pc = "arith"
    /\ updates < ArithMaxUpdates
    /\ game.width <= ArithSpawnWidth
    /\ \E S \in SUBSET (0..(game.width - 1)) :
         /\ game' = update(game, S)
         /\ culled' = Len(advance(spawn(game, S)).blocks) - Len(game'.blocks)
    /\ updates' = updates + 1
    /\ hit' = check_collision(game')
    /\ checks' = checks + 1
    /\ last_op' = "update"
    /\ UNCHANGED <<pc, term_vars, constructed, elapsed, exit_vars, frame,
                   forced>>

\* A Left or Right key applied to the game, while the player stays in the
\* first two or the last two columns.
ArithMove ==
    /\ pc = "arith"
    /\ \E ev \in {"Left", "Right"} :
         /\ game' = handle_event(game, ev)
         /\ game'.player_x \in {0, 1, game.width - 2, game.width - 1}
         /\ last_op' = ev
    /\ UNCHANGED <<pc, term_vars, constructed, hit, updates, culled, checks,
                   elapsed, exit_vars, frame, forced>>

ArithNext ==
    \/ ArithUpdate
    \/ ArithMove

SpecArith == ArithInit /\ [][ArithNext]_vars

(* ------------------------ claims C1 .. C10 ----------------------------- *)
\* The blocks of the game as the set of their indices, and the cells in use.
BlockIdx == 1..Len(game.blocks)
Cells == { <<game.blocks[i].x, game.blocks[i].y>> : i \in BlockIdx }

\* C1 (as stated): once the game exists, 0 <= player_x <= width - 1 in every
\* reachable state, for every board size including width = 0.
C1_PlayerInsideBoard ==
    constructed => (0 <= game.player_x /\ game.player_x <= game.width - 1)

\* C1 (amended): once the game exists, 0 <= player_x < width whenever
\* width >= 1, and player_x = 0 when width = 0.
C1_PlayerClamped ==
    constructed =>
        /\ 0 <= game.player_x
        /\ game.width >= 1 => game.player_x < game.width
        /\ game.width = 0 => game.player_x = 0

\* A move right has just been handled with the player on the last column of
\* a board at least two columns wide.
C1_Witness ==
    /\ constructed
    /\ last_op = "Right"
    /\ game.width >= 2
    /\ game.player_x = game.width - 1

\* C2: every obstacle of the collection has 0 <= y < height in every
\* reachable state; update() removes an obstacle in the call in which its y
\* reaches height, before check_collision or a draw can see it.
C2_ObstaclesOnScreen ==
    constructed =>
        \A i \in BlockIdx : 0 <= game.blocks[i].y /\ game.blocks[i].y < game.height

\* The last update() removed an obstacle and kept another.
C2_Witness ==
    /\ constructed
    /\ last_op = "update"
    /\ culled > 0
    /\ game.blocks # << >>

\* C3: when main ends without an I/O failure (after a quit key or a
\* collision), raw mode is off and the alternate screen has been left.
C3_TerminalRestored ==
    (pc = "done" /\ ~io_failed) =>
        /\ loop_exit \in {"quit", "collision"}
        /\ disable_attempted /\ ~raw_mode
        /\ leave_attempted /\ ~alt_screen

\* main has ended after a collision, without an I/O failure.
C3_Witness ==
    /\ pc = "done"
    /\ ~io_failed
    /\ loop_exit = "collision"

\* C4: when main has ended, a terminal still in raw mode has had
\* disable_raw_mode attempted, and a terminal still on the alternate screen
\* has had LeaveAlternateScreen attempted.
C4_RestorationAttempted ==
    pc = "done" =>
        /\ raw_mode => disable_attempted
        /\ alt_screen => leave_attempted

\* C5: the loop is left only by a collision found right after an update()
\* or by a quit key, it is left whenever one of them happens, and once it
\* is left the game (player, obstacles, score), the number of update()
\* calls and the last collision result never change again.
C5_TerminalStates ==
    [][ /\ loop_exit # "none" =>
              /\ loop_exit' = loop_exit
              /\ game' = game
              /\ updates' = updates
              /\ hit' = hit
              /\ pc' \notin {"draw", "poll", "read", "time_check"}
        /\ (loop_exit = "none" /\ loop_exit' # "none") =>
              \/ /\ loop_exit' = "collision"
                 /\ pc = "time_check" /\ updates' = updates + 1 /\ hit'
              \/ /\ loop_exit' = "quit"
                 /\ pc = "read" /\ last_op' \in {"q", "Esc"}
        /\ (updates' # updates /\ hit') => loop_exit' = "collision"
        /\ (pc = "read" /\ last_op' \in {"q", "Esc"}) => loop_exit' = "quit"
      ]_vars

\* main has ended after the Esc key, with obstacles on the board.
C5_Witness ==
    /\ pc = "done"
    /\ loop_exit = "quit"
    /\ last_op = "print"
    /\ game.blocks # << >>

\* C6: the score is the number of update() calls made so far, and a step
\* changes it only by running update(), which adds exactly 1.
C6_ScoreCountsUpdates ==
    /\ [](game.score = updates)
    /\ [][ game'.score # game.score =>
              /\ game'.score = game.score + 1
              /\ pc = "time_check"
              /\ last_op' = "update" ]_vars

\* The update() whose collision check ended the game has been counted.
C6_Witness ==
    /\ loop_exit = "collision"
    /\ game.score >= 2
    /\ updates = game.score

\* C7: in every reachable state check_collision() is true exactly when the
\* player's cell is the cell of some obstacle, and right after update() the
\* call made by the loop has returned that value.
C7_CollisionIffSameCell ==
    constructed =>
        /\ check_collision(game) <=> <<game.player_x, game.player_y>> \in Cells
        /\ last_op = "update" =>
              (hit <=> <<game.player_x, game.player_y>> \in Cells)

\* check_collision() has returned false with one obstacle in the player's
\* row only and another in the player's column only.
C7_Witness ==
    /\ constructed
    /\ last_op = "update"
    /\ ~hit
    /\ \E i \in BlockIdx : /\ game.blocks[i].y = game.player_y
                           /\ game.blocks[i].x # game.player_x
    /\ \E i \in BlockIdx : /\ game.blocks[i].x = game.player_x
                           /\ game.blocks[i].y # game.player_y

\* C8: no obstacle of the collection has y = 0 in a state a draw or
\* check_collision can see: every obstacle has y >= 1.
C8_NoObstacleInTopRow ==
    constructed => \A i \in BlockIdx : game.blocks[i].y >= 1

\* An obstacle spawned by the last update() is at y = 1.
C8_Witness ==
    /\ constructed
    /\ last_op = "update"
    /\ \E i \in BlockIdx : game.blocks[i].y = 1

\* Two entries of the obstacle collection are in the same cell.
DuplicateCell ==
    \E i, j \in BlockIdx :
        /\ i # j
        /\ game.blocks[i].x = game.blocks[j].x
        /\ game.blocks[i].y = game.blocks[j].y

\* The last update() spawned obstacles in at least two columns.
SpawnedSeveral ==
    /\ constructed
    /\ last_op = "update"
    /\ \E i, j \in BlockIdx :
          /\ i # j
          /\ game.blocks[i].y = 1
          /\ game.blocks[j].y = 1

C10_MoveFrame ==
    /\ [](constructed =>
            game.player_y = IF game.height >= 2 THEN game.height - 2 ELSE 0)
    /\ [][ (constructed /\ constructed') =>
              /\ (pc = "read" /\ last_op' = "Left") =>
                    game' = [game EXCEPT !.player_x =
                                IF game.player_x > 0
                                THEN game.player_x - 1 ELSE 0]
              /\ (pc = "read" /\ last_op' = "Right") =>
                    game' = [game EXCEPT !.player_x =
                                IF game.player_x < game.width - 1
                                THEN game.player_x + 1 ELSE game.player_x]
              /\ (pc = "read" /\ last_op' \notin {"Left", "Right"}) =>
                    game' = game
              /\ pc # "read" => game'.player_x = game.player_x
              /\ pc # "time_check" =>
                    /\ game'.blocks = game.blocks
                    /\ game'.score = game.score
              /\ game'.player_y = game.player_y
              /\ game'.width = game.width
              /\ game'.height = game.height ]_vars

\* A Left key has been handled with the player on column 0, after an
\* update() that left obstacles on the board.
C10_Witness ==
    /\ constructed
    /\ last_op = "Left"
    /\ game.player_x = 0
    /\ game.width >= 2
    /\ game.score > 0
    /\ game.blocks # << >>

\* The row the obstacle placed by hand is in (or would be in) now.
ForcedRow == forced.y + updates

\* C11: under SpecScenario, the obstacle placed at (x0, y0) is, after k
\* update() calls, the first entry of the collection at (x0, y0 + k) while
\* y0 + k < height, and no entry is at (x0, y0 + k) afterwards; with no
\* move and no spawn, an obstacle placed at (player_x, 0) on a board of
\* height >= 3 is the only entry while it lives, and check_collision() is
\* true after exactly player_y updates, not after fewer (nor after more).
C11_ObstacleFalls ==
    forced.on =>
        /\ ForcedRow < game.height =>
              /\ Len(game.blocks) >= 1
              /\ game.blocks[1].x = forced.x
              /\ game.blocks[1].y = ForcedRow
        /\ ForcedRow >= game.height =>
              <<forced.x, ForcedRow>> \notin Cells
        /\ forced.quiet =>
              Len(game.blocks) = IF ForcedRow < game.height THEN 1 ELSE 0
        /\ ( /\ forced.quiet
             /\ forced.y = 0
             /\ forced.x = game.player_x
             /\ game.height >= 3 ) =>
              /\ game.player_y = game.height - 2
              /\ check_collision(game) <=> updates = game.player_y
              /\ updates >= 1 => (hit <=> updates = game.player_y)

\* The obstacle placed at (player_x, 0) has reached the player after
\* player_y >= 2 updates without a move or a spawn, and the check said so.
C11_Witness ==
    /\ forced.on
    /\ forced.quiet
    /\ forced.y = 0
    /\ forced.x = game.player_x
    /\ game.player_y >= 2
    /\ updates = game.player_y
    /\ hit
    /\ game.blocks = << [x |-> game.player_x, y |-> game.player_y] >>

\* C12 (as stated): whenever the process has ended, by quit, collision or
\* I/O failure, the final score has been printed exactly once and the exit
\* code is 0.
C12_ScoreAlwaysPrinted ==
    pc = "done" => (printed = << game.score >> /\ exit_code = 0)

\* C12 (amended): nothing is printed while main runs; when main ends
\* without an I/O failure the score at the end of the loop has been printed
\* exactly once and the exit code is 0; when it ends by an I/O failure
\* nothing has been printed and the exit code is 1.
C12_ScorePrintedOnCleanExit ==
    /\ pc # "done" => (printed = << >> /\ exit_code = -1)
    /\ (pc = "done" /\ ~io_failed) =>
          /\ printed = << game.score >>
          /\ game.score = updates
          /\ exit_code = 0
    /\ (pc = "done" /\ io_failed) =>
          /\ printed = << >>
          /\ exit_code = 1

\* main has ended after a collision at the second update or later, with
\* the score printed.
C12_Witness ==
    /\ pc = "done"
    /\ loop_exit = "collision"
    /\ exit_code = 0
    /\ game.score >= 2
    /\ printed = << game.score >>

\* C13: update() runs only in the time check of an iteration, only when a
\* tick interval has elapsed since last_tick, and last_tick is reset after
\* it; check_collision() is called once with every update() and at no
\* other time; a time check that finds the tick not due changes nothing of
\* the game, so in such an iteration the game changes only by the input
\* read in it.
C13_TickCadence ==
    /\ [](checks = updates)
    /\ [][ /\ updates' # updates =>
                 /\ pc = "time_check"
                 /\ elapsed >= TICK_RATE
                 /\ updates' = updates + 1
                 /\ checks' = checks + 1
           /\ checks' # checks => updates' # updates
           /\ (updates' # updates /\ loop_exit' = "none") =>
                 (elapsed' = 0 /\ pc' = "draw")
           /\ (pc = "time_check" /\ pc' # pc /\ elapsed < TICK_RATE) =>
                 /\ pc' = "draw"
                 /\ last_op' = "no_tick"
                 /\ game' = game
                 /\ hit' = hit
                 /\ updates' = updates
           /\ pc \notin {"read", "time_check", "size"} => game' = game
         ]_vars

\* After two updates, an iteration has found the tick not due, part of the
\* interval having passed.
C13_Witness ==
    /\ last_op = "no_tick"
    /\ updates >= 2
    /\ elapsed > 0
    /\ elapsed < TICK_RATE

\* The u16 fields hold values of the u16 range.
InU16(v) == 0 <= v /\ v <= U16_MAX

\* The blocks of the game one row lower, computed in the integers, and
\* those of them that are still on the board.
MovedDown ==
    [i \in BlockIdx |-> [x |-> game.blocks[i].x, y |-> game.blocks[i].y + 1]]
Survivors == SelectSeq(MovedDown, LAMBDA b : b.y < game.height)

\* C14: under SpecArith (boards, players and blocks at both ends of the
\* u16 range), every u16 field stays in range, player_y is height - 2 or 0
\* as computed in the integers, and every step gives the result computed
\* in the integers: a Left key gives player_x - 1 or leaves 0, a Right key
\* gives player_x + 1 or leaves the last column (width - 1 computed in the
\* integers), and update() gives every surviving block y + 1 and every
\* new block 0 + 1.
C14_NoOverflow ==
    /\ [](/\ InU16(game.width) /\ InU16(game.height)
          /\ InU16(game.player_x) /\ InU16(game.player_y)
          /\ game.player_y = IF game.height >= 2 THEN game.height - 2 ELSE 0
          /\ game.player_x <= IF game.width >= 1 THEN game.width - 1 ELSE 0
          /\ \A i \in BlockIdx :
                /\ InU16(game.blocks[i].x)
                /\ InU16(game.blocks[i].y)
                /\ game.blocks[i].y < game.height)
    /\ [][ /\ (updates' = updates /\ last_op' = "Left") =>
                 game'.player_x = IF game.player_x >= 1
                                  THEN game.player_x - 1 ELSE game.player_x
           /\ (updates' = updates /\ last_op' = "Right") =>
                 game'.player_x = IF game.player_x + 1 <= game.width - 1
                                  THEN game.player_x + 1 ELSE game.player_x
           /\ updates' # updates =>
                 /\ Len(game'.blocks) >= Len(Survivors)
                 /\ SubSeq(game'.blocks, 1, Len(Survivors)) = Survivors
                 /\ \A i \in (Len(Survivors) + 1)..Len(game'.blocks) :
                       game'.blocks[i].y = 1
         ]_vars

\* On a board of height 65535 an update() has moved one block to row
\* 65534 and removed another whose y became 65535, the largest u16.
C14_Witness ==
    /\ pc = "arith"
    /\ last_op = "update"
    /\ game.height = U16_MAX
    /\ culled > 0
    /\ \E i \in BlockIdx : game.blocks[i].y = U16_MAX - 1

\* An obstacle is in the player's cell.
Overlap == <<game.player_x, game.player_y>> \in Cells

\* The loop is running: main is at one of its statements.
Running == constructed /\ pc \in {"draw", "poll", "read", "time_check"}

\* C15 (as stated): there is no state in which the loop is still running
\* with an obstacle in the player's cell and the loop has gone on (a
\* time check, a draw or a poll has run) since the overlap arose.
C15_OverlapEndsGame ==
    ~( /\ Running
       /\ Overlap
       /\ last_op \in {"no_tick", "draw", "poll_none", "poll_some"} )

\* C15 (amended): an update() that leaves an obstacle in the player's cell
\* ends the loop in the same time check, so right after an update() a
\* running loop has no overlap; while the loop runs an overlap arises only
\* by a Left or Right key, and such an overlap does not end the loop: only
\* a collision found right after an update(), or a quit key, leaves it.
C15_OverlapOnlyByMove ==
    /\ []((Running /\ last_op = "update") => ~Overlap)
    /\ [][ /\ (updates' # updates /\ Overlap') =>
                 (loop_exit' = "collision" /\ pc' = "disable_raw")
           /\ (Running' /\ Overlap' /\ ~Overlap) =>
                 (pc = "read" /\ last_op' \in {"Left", "Right"})
           /\ (Running /\ Overlap /\ loop_exit' = "collision") =>
                 (updates' # updates /\ Overlap')
         ]_vars

\* The player has moved into an obstacle's cell and the loop has drawn
\* the frame that shows the player in that cell.
C15_Witness ==
    /\ Running
    /\ Overlap
    /\ last_op = "draw"
    /\ game.score >= 1

\* The last frame shows the game as it is now: the score in the title,
\* one cell per cell of the board, "@" in the player's cell only and "#"
\* in exactly the other cells that hold an obstacle.
FrameShowsGame ==
    /\ frame.title = game.score
    /\ DOMAIN frame.cells = (0..(game.height - 1)) \X (0..(game.width - 1))
    /\ \A c \in DOMAIN frame.cells :
          /\ frame.cells[c] = "@" <=> c = <<game.player_y, game.player_x>>
          /\ frame.cells[c] = "#" <=>
                (c # <<game.player_y, game.player_x>> /\ <<c[2], c[1]>> \in Cells)

\* C16 (as stated): the state in which update() produced the collision
\* that ended the loop has been rendered as a frame.
C16_CollisionStateRendered == loop_exit = "collision" => FrameShowsGame

\* C16 (amended): every iteration starts with the one draw of the
\* iteration, of the game as it is then, and nothing else renders a
\* frame; after an update() without collision the next statement is that
\* draw; the state in which the collision is found is never rendered: the
\* last frame still shows the score before that update().
C16_FrameAtIterationStart ==
    /\ [](pc \in {"poll", "read"} => FrameShowsGame)
    /\ []((Running /\ last_op = "update") => pc = "draw")
    /\ [](loop_exit = "collision" =>
            (~FrameShowsGame /\ frame.title = game.score - 1))
    /\ [][ /\ frame' # frame => (pc = "draw" /\ pc' = "poll")
           /\ (pc' = "poll" /\ pc # "poll") => pc = "draw"
           /\ (pc = "time_check" /\ pc' # pc /\ loop_exit' = "none") =>
                 pc' = "draw"
         ]_vars

\* The frame drawn after an update() shows the obstacles and the score
\* that update() produced.
C16_Witness ==
    /\ pc = "poll"
    /\ last_op = "draw"
    /\ game.score >= 1
    /\ game.blocks # << >>
    /\ FrameShowsGame

\* C17: in an iteration the event is read before the time check and never
\* after it.  A quit key leaves the loop from the read, without update()
\* and with the score as it was, whether or not the tick is due.  Any
\* other event goes on to the time check with a Left or Right key already
\* applied; update() then leaves player_x alone and the collision check
\* that follows it compares the obstacles with that player_x.
C17_InputBeforeTick ==
    [][ /\ (pc = "read" /\ last_op' \in {"q", "Esc"}) =>
              /\ pc' = "disable_raw"
              /\ loop_exit' = "quit"
              /\ game' = game
              /\ updates' = updates
        /\ (pc = "read" /\ last_op' \in {"Left", "Right", "OtherKey", "Resize"}) =>
              /\ pc' = "time_check"
              /\ updates' = updates
        /\ (pc = "read" /\ last_op' = "Left" /\ game.player_x > 0) =>
              game'.player_x = game.player_x - 1
        /\ (pc = "read" /\ last_op' = "Right"
                        /\ game.player_x < game.width - 1) =>
              game'.player_x = game.player_x + 1
        /\ updates' # updates =>
              /\ pc = "time_check"
              /\ loop_exit = "none"
              /\ game'.player_x = game.player_x
              /\ hit' <=> \E i \in 1..Len(game'.blocks) :
                              /\ game'.blocks[i].x = game.player_x
                              /\ game'.blocks[i].y = game.player_y
        /\ (pc' = "time_check" /\ pc # "time_check") => pc \in {"poll", "read"}
        /\ (pc = "time_check" /\ pc' # pc) => pc' \notin {"poll", "read"}
      ]_vars

\* The collision that ended the loop was found in the column the player
\* moved to in the same iteration: the last frame, drawn at the start of
\* that iteration, shows the player elsewhere.
C17_Witness ==
    /\ last_op = "update"
    /\ hit
    /\ loop_exit = "collision"
    /\ <<game.player_y, game.player_x>> \in DOMAIN frame.cells
    /\ frame.cells[<<game.player_y, game.player_x>>] # "@"

\* C18: on a board of height <= 2 the player's row is 0, every obstacle
\* is in a row >= 1, no obstacle is ever in the player's cell, no
\* check_collision() call has returned true and the loop has not been left
\* by a collision.
C18_NoCollisionOnLowBoards ==
    (constructed /\ game.height <= 2) =>
        /\ game.player_y = 0
        /\ \A i \in BlockIdx : game.blocks[i].y >= 1
        /\ ~Overlap
        /\ ~check_collision(game)
        /\ ~hit
        /\ loop_exit # "collision"

\* On a board of height 2, after two updates and a move of the player, an
\* obstacle is in the player's column, one row below the player.
C18_Witness ==
    /\ constructed
    /\ game.height = 2
    /\ game.width >= 2
    /\ updates >= 2
    /\ game.player_x # game.width \div 2
    /\ \E i \in BlockIdx : game.blocks[i].x = game.player_x

\* C19: every obstacle is in a column of the board, and the collection
\* holds at most width * (height - 1) obstacles when height >= 1 and none
\* when height = 0 or width = 0.
C19_ObstaclesBounded ==
    constructed =>
        /\ \A i \in BlockIdx :
              0 <= game.blocks[i].x /\ game.blocks[i].x < game.width
        /\ game.height >= 1 =>
              Len(game.blocks) <= game.width * (game.height - 1)
        /\ (game.height = 0 \/ game.width = 0) => Len(game.blocks) = 0

\* Every cell of rows 1..height-1 of a board at least 2 wide and 2 high
\* holds an obstacle.
C19_Witness ==
    /\ constructed
    /\ last_op = "update"
    /\ game.width >= 2
    /\ game.height >= 2
    /\ Len(game.blocks) = game.width * (game.height - 1)

====
